---- MODULE Spec2Model ----
(***************************************************************************)
(* PolyTracker monitor: the position diff (diffPositions), the baseline    *)
(* phase and the steady-state poll loop (main, pollOnce), the state file   *)
(* (loadState, saveState) and the Discord send (sendDiscordMessage).       *)
(*                                                                         *)
(* A JavaScript object is a TLA+ function from its property names to       *)
(* their values.  A property that is missing and a property whose value is *)
(* undefined read the same everywhere in this code (p.x || d, p.x ?? d),   *)
(* so both are modelled by the name not being in the DOMAIN.               *)
(*                                                                         *)
(* Share sizes are fixed-point integers: SizeUnit units make one share.    *)
(***************************************************************************)
EXTENDS Integers, Sequences, FiniteSets, TLC

VARIABLES
    pc,           \* where main() is suspended (which await), or how it ended
    config,       \* parsed config.json: traders and discordWebhookUrl, if any
    conditionIds, \* the allow-list Set built at startup
    state,        \* the in-memory state object: wallet -> list of positions
    file,         \* data/state.json: [exists, doc]
    idx,          \* index of the trader being processed in the current loop
    pending,      \* locals of pollOnce held across the await of the send
    exitCode,     \* status of process.exit, -1 while none
    phase,        \* "startup", "baseline" or "steady"
    cycle,        \* bookkeeping of the current phase/cycle (history only)
    hist,         \* bookkeeping of the whole run (history only)
    held,         \* wallet -> keys the trader has held since the baseline (history only)
    dOld, dNew, dAllow, dChanges, dpc,  \* harness applying the diff to inputs
    dEmbed,       \* the embed the harness built from dChanges
    allEvents,    \* fetchAllEvents: the number of records in allEvents
    offset,       \* fetchAllEvents: the offset of the next page request
    epc,          \* fetchAllEvents: "idle", "fetching", "returned" or "threw"
    pState,       \* repeated polls of one trader: the state object
    pChanges,     \* repeated polls: the changes of the last poll
    pLast,        \* repeated polls: the size fetched by the last poll (history only)
    pPrev,        \* repeated polls: the size fetched by the poll before (history only)
    pRef,         \* repeated polls: the size last notified or baselined (history only)
    ppc,          \* repeated polls: "idle", "baselined" or "polled"
    rList,        \* round trip: the list every fetch of the trader returns
    rAllow,       \* round trip: the allow-list of every run
    rState,       \* round trip: the state object of the running process
    rFile,        \* round trip: data/state.json
    rChanges,     \* round trip: the changes of the last poll
    rpc           \* round trip: "idle", "start", "baselined", "loaded", "polled", "repolled"

mainvars == <<pc, config, conditionIds, state, file, idx, pending, exitCode,
              phase, cycle, hist, held>>
dvars == <<dOld, dNew, dAllow, dChanges, dpc, dEmbed>>
evars == <<allEvents, offset, epc>>
pvars == <<pState, pChanges, pLast, pPrev, pRef, ppc>>
rvars == <<rList, rAllow, rState, rFile, rChanges, rpc>>
vars == <<mainvars, dvars, evars, pvars, rvars>>

(***************************************************************************)
(* Bounds                                                                  *)
(***************************************************************************)
SizeUnit == 2      \* fixed-point resolution: units per share
MaxLen == 2        \* longest position list handed to diffPositions
MaxFetch == 1      \* longest position list a fetch returns in the driver

Shares(n) == n * SizeUnit

(***************************************************************************)
(* JavaScript helpers                                                      *)
(***************************************************************************)
EmptyObj == [f \in {} |-> 0]

Has(p, f) == f \in DOMAIN p

\* p.f || 0 on a numeric property
NumOr0(p, f) == IF Has(p, f) THEN p[f] ELSE 0

\* p.f is a non-empty string
Truthy(p, f) == Has(p, f) /\ p[f] # ""

\* p.f || '' on a string property
StrOrEmpty(p, f) == IF Truthy(p, f) THEN p[f] ELSE ""

\* { f: p.f } with an undefined value dropped
Field(p, f) == IF Has(p, f) THEN f :> p[f] ELSE EmptyObj

Abs(n) == IF n < 0 THEN -n ELSE n
Max(a, b) == IF a > b THEN a ELSE b

(***************************************************************************)
(* diffPositions                                                           *)
(***************************************************************************)
\* `${p.conditionId}-${p.outcomeIndex ?? p.outcome ?? 0}`
KeyOf(p) ==
    (IF Has(p, "conditionId") THEN p.conditionId ELSE "undefined")
    \o "-" \o
    (IF Has(p, "outcomeIndex") THEN ToString(p.outcomeIndex)
     ELSE IF Has(p, "outcome") THEN p.outcome
     ELSE "0")

\* A Map is the sequence of its entries in insertion order; set() on a key
\* already there replaces the value in place.
MapHas(m, k) == \E j \in 1..Len(m) : m[j].key = k
MapGet(m, k) == m[CHOOSE j \in 1..Len(m) : m[j].key = k].val
MapSet(m, k, v) ==
    IF MapHas(m, k)
    THEN [j \in 1..Len(m) |-> IF m[j].key = k THEN [key |-> k, val |-> v] ELSE m[j]]
    ELSE Append(m, [key |-> k, val |-> v])

RECURSIVE BuildMapFrom(_, _)
BuildMapFrom(m, positions) ==
    IF positions = <<>> THEN m
    ELSE BuildMapFrom(MapSet(m, KeyOf(Head(positions)), Head(positions)),
                      Tail(positions))

BuildMap(positions) == BuildMapFrom(<<>>, positions)

\* the keys of the Map built from a list
KeySet(positions) == {KeyOf(positions[j]) : j \in 1..Len(positions)}

\* pos.title || pos.slug || pos.conditionId
TitleOf(pos) ==
    IF Truthy(pos, "title") THEN "title" :> pos.title
    ELSE IF Truthy(pos, "slug") THEN "title" :> pos.slug
    ELSE IF Has(pos, "conditionId") THEN "title" :> pos.conditionId
    ELSE EmptyObj

\* pos.outcome || `Index ${pos.outcomeIndex ?? '?'}`
OutcomeOf(pos) ==
    IF Truthy(pos, "outcome") THEN pos.outcome
    ELSE "Index " \o (IF Has(pos, "outcomeIndex") THEN ToString(pos.outcomeIndex) ELSE "?")

\* pos.cashPnl || null: a null reads like a missing property (c.cashPnl != null)
CashPnlOf(pos) ==
    IF NumOr0(pos, "cashPnl") # 0 THEN "cashPnl" :> pos.cashPnl ELSE EmptyObj

Display(pos) ==
    Field(pos, "conditionId") @@ TitleOf(pos) @@ CashPnlOf(pos) @@
    [outcome |-> OutcomeOf(pos),
     curPrice |-> NumOr0(pos, "curPrice"),
     avgPrice |-> NumOr0(pos, "avgPrice"),
     eventSlug |-> StrOrEmpty(pos, "eventSlug")]

NewChange(pos) ==
    [type |-> "new", size |-> NumOr0(pos, "size"), sizeDelta |-> NumOr0(pos, "size")]
    @@ Display(pos)

ClosedChange(pos) ==
    [type |-> "closed", size |-> 0, sizeDelta |-> -NumOr0(pos, "size"),
     prevSize |-> NumOr0(pos, "size")]
    @@ Display(pos)

ChangedChange(oldPos, newPos) ==
    [type |-> "changed", size |-> NumOr0(newPos, "size"),
     prevSize |-> NumOr0(oldPos, "size"),
     sizeDelta |-> NumOr0(newPos, "size") - NumOr0(oldPos, "size")]
    @@ Display(newPos)

\* A mutant: the relative threshold alone decides.
ExceedsRelativeOnly(oldSize, newSize) ==
    100 * Abs(newSize - oldSize) > Max(oldSize, Shares(1))

\* A mutant: any difference is reported, and so is none.
ExceedsAlways(oldSize, newSize) == Abs(newSize - oldSize) >= 0

\* delta > 1 && delta / Math.max(oldSize, 1) > 0.01, in fixed point
ExceedsThreshold(oldSize, newSize) ==
    LET delta == Abs(newSize - oldSize)
    IN  /\ delta > Shares(1)
        /\ 100 * delta > Max(oldSize, Shares(1))

NewChanges(oldMap, newMap) ==
    LET opened == SelectSeq(newMap, LAMBDA e : ~MapHas(oldMap, e.key))
    IN  [j \in 1..Len(opened) |-> NewChange(opened[j].val)]

\* A mutant: a position that disappeared is not reported.
ClosedChangesNone(oldMap, newMap) == <<>>

ClosedChanges(oldMap, newMap) ==
    LET closed == SelectSeq(oldMap, LAMBDA e : ~MapHas(newMap, e.key))
    IN  [j \in 1..Len(closed) |-> ClosedChange(closed[j].val)]

\* A mutant: the delta is taken the other way round.
ChangedChangesReversed(oldMap, newMap) ==
    LET changed == SelectSeq(newMap, LAMBDA e :
                       /\ MapHas(oldMap, e.key)
                       /\ ExceedsThreshold(NumOr0(MapGet(oldMap, e.key), "size"),
                                           NumOr0(e.val, "size")))
    IN  [j \in 1..Len(changed) |->
            [ChangedChange(MapGet(oldMap, changed[j].key), changed[j].val)
                EXCEPT !.sizeDelta = -@]]

ChangedChanges(oldMap, newMap) ==
    LET changed == SelectSeq(newMap, LAMBDA e :
                       /\ MapHas(oldMap, e.key)
                       /\ ExceedsThreshold(NumOr0(MapGet(oldMap, e.key), "size"),
                                           NumOr0(e.val, "size")))
    IN  [j \in 1..Len(changed) |->
            ChangedChange(MapGet(oldMap, changed[j].key), changed[j].val)]

\* A mutant: the closed positions are reported first.
diffPositionsClosedFirst(oldPositions, newPositions) ==
    LET oldMap == BuildMap(oldPositions)
        newMap == BuildMap(newPositions)
    IN  ClosedChanges(oldMap, newMap)
        \o NewChanges(oldMap, newMap)
        \o ChangedChanges(oldMap, newMap)

diffPositions(oldPositions, newPositions) ==
    LET oldMap == BuildMap(oldPositions)
        newMap == BuildMap(newPositions)
    IN  NewChanges(oldMap, newMap)
        \o ClosedChanges(oldMap, newMap)
        \o ChangedChanges(oldMap, newMap)

(***************************************************************************)
(* pollOnce: filter to the allow-list, normalize, diff against the stored  *)
(* entry                                                                   *)
(***************************************************************************)
\* The object literal of .map(p => ({...})), the same in pollOnce and in main
normalize(p) ==
    Field(p, "conditionId") @@ Field(p, "outcomeIndex") @@ Field(p, "outcome") @@
    [size |-> NumOr0(p, "size"),
     cashPnl |-> NumOr0(p, "cashPnl"),
     curPrice |-> NumOr0(p, "curPrice"),
     avgPrice |-> NumOr0(p, "avgPrice"),
     title |-> IF Truthy(p, "title") THEN p.title ELSE StrOrEmpty(p, "slug"),
     slug |-> StrOrEmpty(p, "slug"),
     eventSlug |-> StrOrEmpty(p, "eventSlug")]

\* A mutant: an empty allow-list filters nothing.
InAllowListUnlessEmpty(p, cids) ==
    cids = {} \/ (Has(p, "conditionId") /\ p.conditionId \in cids)

\* conditionIds.has(p.conditionId)
InAllowList(p, cids) == Has(p, "conditionId") /\ p.conditionId \in cids

\* A mutant: the allow-list is not applied.
NormalizedUnfiltered(positions, cids) ==
    [j \in 1..Len(positions) |-> normalize(positions[j])]

\* positions.filter(p => !conditionIds || conditionIds.has(p.conditionId)).map(...)
\* conditionIds is always a Set when main calls pollOnce.
Normalized(positions, cids) ==
    LET kept == SelectSeq(positions, LAMBDA p : InAllowList(p, cids))
    IN  [j \in 1..Len(kept) |-> normalize(kept[j])]

\* state[trader.wallet] || []
PrevPositions(st, wallet) == IF Has(st, wallet) THEN st[wallet] ELSE <<>>

\* const changes = diffPositions(state[trader.wallet] || [], normalized)
PollChanges(st, wallet, positions, cids) ==
    diffPositions(PrevPositions(st, wallet), Normalized(positions, cids))

\* state[trader.wallet] = normalized
SetEntry(st, wallet, positions) ==
    [w \in DOMAIN st \cup {wallet} |-> IF w = wallet THEN positions ELSE st[w]]

(***************************************************************************)
(* buildTradeEmbed                                                         *)
(***************************************************************************)
NetBuyColour == 65280        \* 0x00ff00
NetSellColour == 16711680    \* 0xff0000
MixedColour == 16755200      \* 0xffaa00
MaxFields == 25              \* Discord max 25 fields

\* the label of getDirection(change)
getDirection(change) ==
    IF change.type = "new" THEN "BUY"
    ELSE IF change.type = "closed" THEN "SELL"
    ELSE IF change.sizeDelta > 0 THEN "BUY MORE"
    ELSE "SELL"

\* the lines of a field's value, each named by what it shows, after
\* filter(Boolean) dropped the null ones
FieldLines(c) ==
    <<"Market">>
    \o <<IF c.type = "new" THEN "Shares"
         ELSE IF c.type = "closed" THEN "Sold" ELSE "Change">>
    \o (IF NumOr0(c, "curPrice") # 0 /\ NumOr0(c, "avgPrice") # 0
        THEN <<"Price | Avg Entry">>
        ELSE IF NumOr0(c, "curPrice") # 0 THEN <<"Price">>
        ELSE IF NumOr0(c, "avgPrice") # 0 THEN <<"Avg Entry">>
        ELSE <<>>)
    \o (IF NumOr0(c, "curPrice") # 0 /\ c.size # 0 THEN <<"Est Value">> ELSE <<>>)
    \o (IF Has(c, "cashPnl") THEN <<"PNL">> ELSE <<>>)

\* one entry of fields: the direction and the outcome of its name, the
\* lines of its value and the amount of its PNL line
EmbedField(c) ==
    [direction |-> getDirection(c),
     outcome |-> IF Truthy(c, "outcome") THEN c.outcome ELSE "Position",
     lines |-> FieldLines(c)]
    @@ Field(c, "cashPnl")

\* changes.some(c => c.sizeDelta > 0 || c.type === 'new')
HasBuy(changes) ==
    \E j \in 1..Len(changes) : changes[j].sizeDelta > 0 \/ changes[j].type = "new"

\* changes.some(c => c.sizeDelta < 0 || c.type === 'closed')
HasSell(changes) ==
    \E j \in 1..Len(changes) : changes[j].sizeDelta < 0 \/ changes[j].type = "closed"

\* A mutant: any buy makes the embed green.
EmbedColourAnyBuy(changes) ==
    IF HasBuy(changes) THEN NetBuyColour
    ELSE IF HasSell(changes) THEN NetSellColour
    ELSE MixedColour

\* hasBuy && !hasSell ? 0x00ff00 : hasSell && !hasBuy ? 0xff0000 : 0xffaa00
EmbedColour(changes) ==
    IF HasBuy(changes) /\ ~HasSell(changes) THEN NetBuyColour
    ELSE IF HasSell(changes) /\ ~HasBuy(changes) THEN NetSellColour
    ELSE MixedColour

\* the embed of buildTradeEmbed: moves is changes.length of the title
buildTradeEmbed(changes) ==
    [moves |-> Len(changes),
     color |-> EmbedColour(changes),
     fields |-> LET fields == [j \in 1..Len(changes) |-> EmbedField(changes[j])]
                IN  SubSeq(fields, 1, IF Len(fields) < MaxFields
                                      THEN Len(fields) ELSE MaxFields)]

(***************************************************************************)
(* Inputs                                                                  *)
(***************************************************************************)
Wallets == {"w1", "w2"}
Markets == {"m1", "m2"}
AllowLists == {{}, {"m1"}, {"m1", "m2"}}

\* market m1, outcome 0 "Yes", with every field the API sends
YesPos(size) ==
    [conditionId |-> "m1", outcomeIndex |-> 0, outcome |-> "Yes", size |-> size,
     cashPnl |-> 5, curPrice |-> 60, avgPrice |-> 50,
     title |-> "Market one", slug |-> "market-one", eventSlug |-> "event-one"]

\* market m1 with neither outcomeIndex nor outcome: its key is "m1-0" too
BarePos(size) == [conditionId |-> "m1", size |-> size, slug |-> "market-one"]

\* market m2, outcome 1 "No", cash PnL of exactly zero
NoPos(size) ==
    [conditionId |-> "m2", outcomeIndex |-> 1, outcome |-> "No", size |-> size,
     cashPnl |-> 0, curPrice |-> 40, avgPrice |-> 45,
     title |-> "", slug |-> "market-two", eventSlug |-> ""]

\* market m2, outcome label only, no size and no PnL data
LabelPos == [conditionId |-> "m2", outcome |-> "No"]

DiffPool ==
    {YesPos(Shares(50)), YesPos(Shares(48)), BarePos(Shares(50)),
     NoPos(0), NoPos(Shares(3)), LabelPos}

SeqsUpTo(S, n) == UNION {[1..k -> S] : k \in 0..n}

\* Sizes around both thresholds, in units: 1 share is Shares(1)
SizeSamples ==
    {0, 1, Shares(1), Shares(2), Shares(48), Shares(50), Shares(100),
     Shares(100) + 1, Shares(300), Shares(302), Shares(303), Shares(304)}

ThresholdPool == {YesPos(s) : s \in SizeSamples} \cup {[conditionId |-> "m1", outcomeIndex |-> 0]}

\* Positions whose (conditionId, outcome key) pairs differ: an outcome index
\* and a label made of the same digit, a dash in the conditionId and a dash
\* in the label
KeyPool ==
    {[conditionId |-> "m1", outcomeIndex |-> 1, size |-> Shares(50)],
     [conditionId |-> "m1", outcome |-> "1", size |-> Shares(50)],
     [conditionId |-> "m-1", outcomeIndex |-> 0, size |-> Shares(50)],
     [conditionId |-> "m", outcome |-> "1-0", size |-> Shares(50)]}

DiffInputs ==
    (SeqsUpTo(DiffPool, MaxLen) \X SeqsUpTo(DiffPool, MaxLen))
    \cup {<<(<<o>>), (<<n>>)>> : o \in ThresholdPool, n \in ThresholdPool}
    \cup {<<(<<o>>), (<<n>>)>> : o \in KeyPool, n \in KeyPool}

(***************************************************************************)
(* The harness: diffPositions and the first part of pollOnce as functions  *)
(* of their inputs                                                         *)
(***************************************************************************)
DiffIdle ==
    /\ dOld = <<>> /\ dNew = <<>> /\ dAllow = {} /\ dChanges = <<>> /\ dpc = "idle"
    /\ dEmbed = EmptyObj

EventsIdle == allEvents = 0 /\ offset = 0 /\ epc = "idle"

DriftIdle ==
    /\ pState = EmptyObj /\ pChanges = <<>> /\ pLast = 0 /\ pPrev = 0 /\ pRef = 0
    /\ ppc = "idle"

RoundIdle ==
    /\ rList = <<>> /\ rAllow = {} /\ rState = EmptyObj /\ rFile = EmptyObj
    /\ rChanges = <<>> /\ rpc = "idle"

MainIdle ==
    /\ pc = "idle" /\ config = EmptyObj /\ conditionIds = {} /\ state = EmptyObj
    /\ file = EmptyObj /\ idx = 0 /\ pending = EmptyObj /\ exitCode = -1
    /\ phase = "idle" /\ cycle = EmptyObj /\ hist = EmptyObj /\ held = EmptyObj

InitDiff ==
    /\ MainIdle
    /\ \E in \in DiffInputs : dOld = in[1] /\ dNew = in[2]
    /\ dAllow = {}
    /\ dChanges = <<>>
    /\ dpc = "input"
    /\ dEmbed = EmptyObj
    /\ EventsIdle
    /\ DriftIdle
    /\ RoundIdle

\* diffPositions(oldPositions, newPositions)
Reconcile ==
    /\ dpc = "input"
    /\ dChanges' = diffPositions(dOld, dNew)
    /\ dpc' = "diffed"
    /\ UNCHANGED <<dOld, dNew, dAllow, dEmbed, mainvars, evars, pvars, rvars>>

\* diffPositions(P, P): a repoll that returns what is stored
ReconcileSelf ==
    /\ dpc = "input"
    /\ dChanges' = diffPositions(dOld, dOld)
    /\ dpc' = "self"
    /\ UNCHANGED <<dOld, dNew, dAllow, dEmbed, mainvars, evars, pvars, rvars>>

\* pollOnce up to the diff, for a trader with no entry in the state object
\* whose fetch returned dNew, under the allow-list dAllow'
PollFirstSeen ==
    /\ dpc = "input"
    /\ dAllow' \in AllowLists
    /\ dChanges' = PollChanges(EmptyObj, "w1", dNew, dAllow')
    /\ dpc' = "first"
    /\ UNCHANGED <<dOld, dNew, dEmbed, mainvars, evars, pvars, rvars>>

\* buildTradeEmbed(trader.name, trader.wallet, changes), which pollOnce
\* calls when changes.length > 0
Format ==
    /\ dpc \in {"diffed", "first"}
    /\ dChanges # <<>>
    /\ dEmbed = EmptyObj
    /\ dEmbed' = buildTradeEmbed(dChanges)
    /\ UNCHANGED <<dOld, dNew, dAllow, dChanges, dpc, mainvars, evars, pvars, rvars>>

NextDiff == Reconcile \/ ReconcileSelf \/ PollFirstSeen \/ Format

SpecDiff == InitDiff /\ [][NextDiff]_vars

(***************************************************************************)
(* fetchAllEvents                                                          *)
(***************************************************************************)
PageSize == 100      \* const pageSize = 100
EventCap == 5000     \* if (allEvents.length > 5000) break

\* the lengths of the pages the events API returns: empty, half, full
PageLengths == {0, PageSize \div 2, PageSize}

\* what await fetchJSON(page url) gives: a rejection, a JSON value that is
\* no array, or an array of events
PageResponses ==
    {[kind |-> "throw"], [kind |-> "nonlist"]}
    \cup {[kind |-> "list", length |-> n] : n \in PageLengths}

\* !Array.isArray(events) || events.length === 0
LastPage(r) == r.kind = "nonlist" \/ (r.kind = "list" /\ r.length = 0)

\* allEvents.length > 5000
CapReached(n) == n > EventCap

InitEvents ==
    /\ MainIdle /\ DiffIdle
    /\ allEvents = 0 /\ offset = 0 /\ epc = "fetching"
    /\ DriftIdle
    /\ RoundIdle

\* one turn of the while (true) loop: the page request settles
PageDone ==
    /\ epc = "fetching"
    /\ \E r \in PageResponses :
         IF r.kind = "throw"
         THEN /\ epc' = "threw"
              /\ UNCHANGED <<allEvents, offset>>
         ELSE IF LastPage(r)
         THEN /\ epc' = "returned"
              /\ UNCHANGED <<allEvents, offset>>
         ELSE /\ allEvents' = allEvents + r.length
              /\ offset' = offset + PageSize
              /\ epc' = IF CapReached(allEvents + r.length)
                        THEN "returned" ELSE "fetching"
    /\ UNCHANGED <<mainvars, dvars, pvars, rvars>>

NextEvents == PageDone

SpecEvents == InitEvents /\ [][NextEvents]_vars

(***************************************************************************)
(* The state file                                                          *)
(***************************************************************************)
\* existsSync(STATE_PATH) ? JSON.parse(readFileSync(STATE_PATH)) : {}
loadState(f) == IF f.exists THEN f.doc ELSE EmptyObj

\* A mutant: the file keeps the outcome label but not the outcome index.
saveStateWithoutIndex(f, st) ==
    [exists |-> TRUE,
     doc |-> [w \in DOMAIN st |->
                [j \in 1..Len(st[w]) |->
                    [n \in DOMAIN st[w][j] \ {"outcomeIndex"} |-> st[w][j][n]]]]]

\* writeFileSync(STATE_PATH, JSON.stringify(state, null, 2)).  JSON.stringify
\* drops the properties whose value is undefined and keeps numbers and
\* strings, which is the identity on objects as modelled here.
saveState(f, st) == [exists |-> TRUE, doc |-> st]

(***************************************************************************)
(* main and pollOnce                                                       *)
(***************************************************************************)
\* LabelPos is outside the allow-list {"m1"}, and every position is outside {}
FetchPool == {YesPos(Shares(50)), YesPos(Shares(48)), LabelPos}

\* what await fetchPositions(wallet) gives: a rejection (network error, HTTP
\* status), a JSON value that is no array, or an array of positions
\* The first trader's account moves through FetchPool; the others hold at
\* most the one position.
FetchOutcomes(wallet) ==
    {[kind |-> "throw"], [kind |-> "nonlist"]}
    \cup {[kind |-> "list", positions |-> l] :
             l \in IF wallet = "w1" THEN SeqsUpTo(FetchPool, MaxFetch)
                   ELSE {<<>>, <<YesPos(Shares(50))>>}}

TraderLists == {<<>>, <<"w1">>, <<"w1", "w2">>}

\* config.json: traders may be missing; the webhook URL may be missing
Configs ==
    {[discordWebhookUrl |-> "hook"], EmptyObj}
    \cup {[traders |-> t, discordWebhookUrl |-> "hook"] : t \in TraderLists}
    \cup {[traders |-> t] : t \in TraderLists \ {<<>>}}

\* data/state.json at startup: missing, {} or written by an earlier run
InitialFiles ==
    {[exists |-> FALSE, doc |-> EmptyObj],
     [exists |-> TRUE, doc |-> EmptyObj],
     [exists |-> TRUE, doc |-> ("w1" :> <<normalize(YesPos(Shares(50)))>>)]}

NewCycle(st) == [startState |-> st, outcomes |-> <<>>, sent |-> <<>>,
                 saves |-> 0, diffs |-> 0]

Init ==
    /\ pc = "start"
    /\ config \in Configs
    /\ conditionIds = {}
    /\ state = EmptyObj
    /\ file \in InitialFiles
    /\ idx = 0
    /\ pending = EmptyObj
    /\ exitCode = -1
    /\ phase = "startup"
    /\ cycle = NewCycle(EmptyObj)
    /\ hist = [calls |-> {}, loaded |-> "no", baselineRuns |-> 0,
               baselineDone |-> FALSE, baselineSaves |-> 0,
               steadyStarted |-> FALSE]
    /\ held = EmptyObj
    /\ DiffIdle
    /\ EventsIdle
    /\ DriftIdle
    /\ RoundIdle

\* A mutant: only a missing list counts.
NoTradersMissingOnly(cfg) == ~Has(cfg, "traders")

\* !config.traders || config.traders.length === 0
NoTraders(cfg) == ~Has(cfg, "traders") \/ Len(cfg.traders) = 0

\* A mutant: state.length === 0, which no object satisfies.
IsFirstRunByLength(st) == FALSE

\* Object.keys(state).length === 0
IsFirstRun(st) == DOMAIN st = {}

NumTraders == Len(config.traders)
Wallet == config.traders[idx]
HasWebhook == Has(config, "discordWebhookUrl")

\* main() up to its first await: read the config, exit when there is no
\* trader, else call fetchAllEvents
Start ==
    /\ pc = "start"
    /\ IF NoTraders(config)
       THEN /\ pc' = "exited"
            /\ exitCode' = 1
            /\ hist' = hist
       ELSE /\ pc' = "events"
            /\ exitCode' = exitCode
            /\ hist' = [hist EXCEPT !.calls = @ \cup {"events"}]
    /\ UNCHANGED <<config, conditionIds, state, file, idx, pending, phase, cycle, held, dvars, evars, pvars, rvars>>

\* the first call of pollOnce, or the next one: its loop starts at the
\* first trader with the fetch of that trader's positions
StartCycle(st) ==
    /\ phase' = "steady"
    /\ idx' = 1
    /\ pc' = "fetch"
    /\ cycle' = NewCycle(st)

\* fetchAllEvents settles: a rejection ends main(); else the allow-list is
\* built, the state loaded, and the baseline loop or the first cycle begins
EventsDone ==
    /\ pc = "events"
    /\ \/ /\ pc' = "crashed"
          /\ exitCode' = 0
          /\ UNCHANGED <<conditionIds, state, idx, phase, cycle, hist>>
       \/ \E cids \in AllowLists :
            LET loaded == loadState(file)
            IN  /\ conditionIds' = cids
                /\ state' = loaded
                /\ exitCode' = exitCode
                /\ IF IsFirstRun(loaded)
                   THEN /\ phase' = "baseline"
                        /\ idx' = 1
                        /\ pc' = "baseFetch"
                        /\ cycle' = NewCycle(loaded)
                        /\ hist' = [hist EXCEPT
                              !.loaded = IF DOMAIN loaded = {} THEN "empty" ELSE "entries",
                              !.baselineRuns = @ + 1,
                              !.calls = @ \cup {"positions"}]
                   ELSE /\ StartCycle(loaded)
                        /\ hist' = [hist EXCEPT
                              !.loaded = IF DOMAIN loaded = {} THEN "empty" ELSE "entries",
                              !.steadyStarted = TRUE,
                              !.calls = @ \cup {"positions"}]
    /\ UNCHANGED <<config, file, pending, held, dvars, evars, pvars, rvars>>

\* A mutant: the baseline stores what was fetched, unfiltered.
BaselineEntryUnfiltered(st, wallet, positions, cids) ==
    SetEntry(st, wallet, NormalizedUnfiltered(positions, cids))

\* state[trader.wallet] = positions.filter(p => conditionIds.has(
\* p.conditionId)).map(...) in the baseline loop
BaselineEntry(st, wallet, positions, cids) ==
    SetEntry(st, wallet, Normalized(positions, cids))

\* the baseline loop is over: saveState(state), then the first pollOnce;
\* a write that throws ends main()
AfterBaseline(st, c) ==
    \/ /\ file' = saveState(file, st)
       /\ StartCycle(st)
       /\ exitCode' = exitCode
       /\ hist' = [hist EXCEPT !.baselineDone = TRUE, !.baselineSaves = @ + 1,
                               !.steadyStarted = TRUE, !.calls = @ \cup {"write"}]
    \/ /\ file' = file
       /\ pc' = "crashed"
       /\ exitCode' = 0
       /\ cycle' = c
       /\ hist' = [hist EXCEPT !.calls = @ \cup {"write"}]
       /\ UNCHANGED <<idx, phase>>

\* the next trader of the baseline loop
NextBaseline(st, c) ==
    IF idx < NumTraders
    THEN /\ idx' = idx + 1
         /\ pc' = "baseFetch"
         /\ cycle' = c
         /\ UNCHANGED <<file, phase, exitCode, hist>>
    ELSE AfterBaseline(st, c)

\* the keys of the positions a trader holds while its baseline fetch
\* settles: those of the list returned, or, when the fetch fails, those of
\* any list it could have returned
HeldAtBaseline(wallet, o) ==
    IF o.kind = "list" THEN {KeySet(o.positions)}
    ELSE {KeySet(l.positions) : l \in {x \in FetchOutcomes(wallet) : x.kind = "list"}}

\* the keys held since the baseline, after a later fetch settled: a list
\* shows what is still held, a failed fetch shows nothing
HeldSince(h, wallet, o) ==
    IF o.kind = "list" /\ Has(h, wallet)
    THEN [h EXCEPT ![wallet] = @ \cap KeySet(o.positions)]
    ELSE h

\* the baseline's fetchPositions settles
BaseFetchDone ==
    /\ pc = "baseFetch"
    /\ \E o \in FetchOutcomes(Wallet) :
         LET c == [cycle EXCEPT !.outcomes = Append(@, o)]
         IN  /\ \E h \in HeldAtBaseline(Wallet, o) : held' = (Wallet :> h) @@ held
             /\ CASE o.kind = "throw" ->
                    \* catch {} ; await sleep(500)
                    /\ pc' = "baseSleep"
                    /\ cycle' = c
                    /\ UNCHANGED <<state, file, idx, phase, exitCode, hist>>
               [] o.kind = "nonlist" ->
                    \* continue: the sleep is skipped
                    /\ state' = state
                    /\ NextBaseline(state, c)
               [] o.kind = "list" ->
                    /\ state' = BaselineEntry(state, Wallet, o.positions, conditionIds)
                    /\ pc' = "baseSleep"
                    /\ cycle' = c
                    /\ UNCHANGED <<file, idx, phase, exitCode, hist>>
    /\ UNCHANGED <<config, conditionIds, pending, dvars, evars, pvars, rvars>>

\* the baseline's sleep(500) is over
BaseSleepDone ==
    /\ pc = "baseSleep"
    /\ NextBaseline(state, cycle)
    /\ UNCHANGED <<config, conditionIds, state, pending, held, dvars, evars, pvars, rvars>>

\* the loop of pollOnce is over: saveState(state), pollOnce returns and
\* main sleeps the poll interval; a write that throws ends main()
AfterCycle(st, c) ==
    \/ /\ file' = saveState(file, st)
       /\ pc' = "interval"
       /\ exitCode' = exitCode
       /\ cycle' = [c EXCEPT !.saves = @ + 1]
       /\ hist' = [hist EXCEPT !.calls = @ \cup {"write"}]
    \/ /\ file' = file
       /\ pc' = "crashed"
       /\ exitCode' = 0
       /\ cycle' = c
       /\ hist' = [hist EXCEPT !.calls = @ \cup {"write"}]

\* A mutant: the state is saved after every trader.
NextTraderSaving(st, c) ==
    IF idx < NumTraders
    THEN /\ idx' = idx + 1
         /\ pc' = "fetch"
         /\ cycle' = c
         /\ file' = saveState(file, st)
         /\ UNCHANGED <<exitCode, hist>>
    ELSE /\ idx' = idx
         /\ AfterCycle(st, c)

\* the next trader of the loop of pollOnce
NextTrader(st, c) ==
    IF idx < NumTraders
    THEN /\ idx' = idx + 1
         /\ pc' = "fetch"
         /\ cycle' = c
         /\ UNCHANGED <<file, exitCode, hist>>
    ELSE /\ idx' = idx
         /\ AfterCycle(st, c)

\* A mutant: the stored snapshot is overwritten only when a change was found.
StateAfterFetchKeeping(st, wallet, o, cids) == st

\* A mutant: the stored snapshot is overwritten as soon as the fetch settles.
StateAfterFetchEager(st, wallet, o, cids) ==
    IF o.kind = "list" THEN SetEntry(st, wallet, Normalized(o.positions, cids)) ELSE st

\* A mutant: a failed fetch is stored as an empty snapshot.
StateAfterFetchClearing(st, wallet, o, cids) ==
    IF o.kind = "list"
    THEN IF PollChanges(st, wallet, o.positions, cids) = <<>>
         THEN SetEntry(st, wallet, Normalized(o.positions, cids))
         ELSE st
    ELSE SetEntry(st, wallet, <<>>)

\* the state object when pollOnce next suspends after the fetch settled:
\* updated at once when no change was found, untouched while the send is
\* awaited, untouched when the fetch threw or gave no array
StateAfterFetch(st, wallet, o, cids) ==
    IF o.kind = "list" /\ PollChanges(st, wallet, o.positions, cids) = <<>>
    THEN SetEntry(st, wallet, Normalized(o.positions, cids))
    ELSE st

\* fetchPositions settles in pollOnce
FetchDone ==
    /\ pc = "fetch"
    /\ \E o \in FetchOutcomes(Wallet) :
         LET c == [cycle EXCEPT !.outcomes = Append(@, o)]
             st == StateAfterFetch(state, Wallet, o, conditionIds)
         IN  /\ state' = st
             /\ held' = HeldSince(held, Wallet, o)
             /\ CASE o.kind = "throw" ->
                    \* catch: console.error; await sleep(500)
                    /\ pc' = "pace"
                    /\ cycle' = c
                    /\ pending' = pending
                    /\ UNCHANGED <<file, idx, exitCode, hist>>
               [] o.kind = "nonlist" ->
                    \* continue: the sleep is skipped
                    /\ pending' = pending
                    /\ NextTrader(st, c)
               [] o.kind = "list" ->
                    LET changes == PollChanges(state, Wallet, o.positions, conditionIds)
                    IN  /\ cycle' = [c EXCEPT !.diffs = @ + 1]
                        /\ IF changes # <<>>
                           THEN \* buildTradeEmbed; await sendDiscordMessage
                                /\ pc' = "send"
                                /\ pending' = [normalized |-> Normalized(o.positions, conditionIds),
                                               changes |-> changes,
                                               embed |-> buildTradeEmbed(changes)]
                                /\ hist' = [hist EXCEPT !.calls =
                                              IF HasWebhook THEN @ \cup {"webhook"} ELSE @]
                           ELSE /\ pc' = "pace"
                                /\ pending' = pending
                                /\ hist' = hist
                        /\ UNCHANGED <<file, idx, exitCode>>
    /\ UNCHANGED <<config, conditionIds, phase, dvars, evars, pvars, rvars>>

\* what sendDiscordMessage does before it resolves; it never rejects
SendResults == IF HasWebhook THEN {"ok", "rejected", "error"} ELSE {"skipped"}

\* A mutant: the stored snapshot is updated only when the alert went out.
StateAfterSendIfDelivered(st, wallet, normalized, result) ==
    IF result = "ok" THEN SetEntry(st, wallet, normalized) ELSE st

\* state[trader.wallet] = normalized, after the awaited send
StateAfterSend(st, wallet, normalized, result) == SetEntry(st, wallet, normalized)

\* sendDiscordMessage resolves: the state is updated, then sleep(500)
SendDone ==
    /\ pc = "send"
    /\ \E r \in SendResults :
         /\ cycle' = [cycle EXCEPT !.sent =
                         Append(@, [wallet |-> Wallet, changes |-> pending.changes,
                                    embed |-> pending.embed, result |-> r])]
         /\ state' = StateAfterSend(state, Wallet, pending.normalized, r)
    /\ pending' = EmptyObj
    /\ pc' = "pace"
    /\ UNCHANGED <<config, conditionIds, file, idx, exitCode, phase, hist, held, dvars, evars, pvars, rvars>>

\* the sleep(500) of pollOnce is over
PaceDone ==
    /\ pc = "pace"
    /\ NextTrader(state, cycle)
    /\ UNCHANGED <<config, conditionIds, state, pending, phase, held, dvars, evars, pvars, rvars>>

\* the sleep of the poll interval is over: pollOnce is called again
IntervalDone ==
    /\ pc = "interval"
    /\ StartCycle(state)
    /\ UNCHANGED <<config, conditionIds, state, file, pending, exitCode, hist, held, dvars, evars, pvars, rvars>>

Next ==
    \/ Start
    \/ EventsDone
    \/ BaseFetchDone
    \/ BaseSleepDone
    \/ FetchDone
    \/ SendDone
    \/ PaceDone
    \/ IntervalDone

Spec == Init /\ [][Next]_vars

(***************************************************************************)
(* Repeated polls of one trader: pollOnce called again and again for a     *)
(* trader whose fetch succeeds and returns one position of varying size    *)
(***************************************************************************)
DriftAllow == {"m1"}

\* the sizes the position moves through, in units
DriftSizes == Shares(47)..Shares(50)

\* the state object after one whole poll of the trader whose fetch gave o
StateAfterPoll(st, wallet, o, cids) ==
    IF PollChanges(st, wallet, o.positions, cids) = <<>>
    THEN StateAfterFetch(st, wallet, o, cids)
    ELSE StateAfterSend(StateAfterFetch(st, wallet, o, cids), wallet,
                        Normalized(o.positions, cids), "ok")

\* the baseline loop stored the position at its first size
InitDrift ==
    /\ MainIdle /\ DiffIdle /\ EventsIdle /\ RoundIdle
    /\ \E s \in DriftSizes :
         /\ pState = BaselineEntry(EmptyObj, "w1", <<YesPos(s)>>, DriftAllow)
         /\ pLast = s /\ pPrev = s /\ pRef = s
    /\ pChanges = <<>>
    /\ ppc = "baselined"

\* one more poll of the trader: fetch, filter, normalize, diff, notify when
\* there is a change, overwrite the entry
PollDrift ==
    /\ ppc \in {"baselined", "polled"}
    /\ \E s \in DriftSizes :
         LET o == [kind |-> "list", positions |-> <<YesPos(s)>>]
             changes == PollChanges(pState, "w1", o.positions, DriftAllow)
         IN  /\ pChanges' = changes
             /\ pState' = StateAfterPoll(pState, "w1", o, DriftAllow)
             /\ pPrev' = pLast
             /\ pLast' = s
             /\ pRef' = IF changes # <<>> THEN s ELSE pRef
    /\ ppc' = "polled"
    /\ UNCHANGED <<mainvars, dvars, evars, rvars>>

NextDrift == PollDrift

SpecDrift == InitDrift /\ [][NextDrift]_vars

(***************************************************************************)
(* Round trip: one trader whose every fetch returns the same list, through *)
(* the baseline loop, the state file and a restart of the process          *)
(***************************************************************************)
InitRound ==
    /\ MainIdle /\ DiffIdle /\ EventsIdle /\ DriftIdle
    /\ rList \in SeqsUpTo(DiffPool, MaxLen)
    /\ rAllow \in AllowLists
    /\ rState = EmptyObj
    /\ rFile = [exists |-> FALSE, doc |-> EmptyObj]
    /\ rChanges = <<>>
    /\ rpc = "start"

\* a first run: the baseline loop stores the list, saveState(state)
RoundBaseline ==
    /\ rpc = "start"
    /\ IsFirstRun(loadState(rFile))
    /\ rState' = BaselineEntry(loadState(rFile), "w1", rList, rAllow)
    /\ rFile' = saveState(rFile, BaselineEntry(loadState(rFile), "w1", rList, rAllow))
    /\ rChanges' = <<>>
    /\ rpc' = "baselined"
    /\ UNCHANGED <<rList, rAllow, mainvars, dvars, evars, pvars>>

\* the first call of pollOnce of a run: the poll of the trader, saveState(state)
RoundPoll ==
    /\ rpc \in {"baselined", "loaded"}
    /\ rChanges' = PollChanges(rState, "w1", rList, rAllow)
    /\ rState' = StateAfterPoll(rState, "w1", [kind |-> "list", positions |-> rList],
                                rAllow)
    /\ rFile' = saveState(rFile, StateAfterPoll(rState, "w1",
                                    [kind |-> "list", positions |-> rList], rAllow))
    /\ rpc' = IF rpc = "baselined" THEN "polled" ELSE "repolled"
    /\ UNCHANGED <<rList, rAllow, mainvars, dvars, evars, pvars>>

\* the process is stopped and started again: main() loads the state file,
\* and goes to the poll loop when the state has an entry
RoundRestart ==
    /\ rpc \in {"baselined", "polled"}
    /\ rState' = loadState(rFile)
    /\ rChanges' = <<>>
    /\ rpc' = IF IsFirstRun(loadState(rFile)) THEN "start" ELSE "loaded"
    /\ UNCHANGED <<rList, rAllow, rFile, mainvars, dvars, evars, pvars>>

NextRound == RoundBaseline \/ RoundPoll \/ RoundRestart

SpecRound == InitRound /\ [][NextRound]_vars

(***************************************************************************)
(* What the claims speak of                                                *)
(***************************************************************************)
RECURSIVE KeysInOrderFrom(_, _)
KeysInOrderFrom(seen, positions) ==
    IF positions = <<>> THEN seen
    ELSE LET k == KeyOf(Head(positions))
         IN  KeysInOrderFrom(IF \E j \in 1..Len(seen) : seen[j] = k
                             THEN seen ELSE Append(seen, k),
                             Tail(positions))

\* the keys of a snapshot, in the order of their first occurrence
KeysInOrder(positions) == KeysInOrderFrom(<<>>, positions)

\* the position a key stands for: the last one written
PosOf(positions, k) ==
    positions[CHOOSE j \in 1..Len(positions) :
                 /\ KeyOf(positions[j]) = k
                 /\ \A l \in (j+1)..Len(positions) : KeyOf(positions[l]) # k]
SizeOf(positions, k) == NumOr0(PosOf(positions, k), "size")

OfType(changes, t) == SelectSeq(changes, LAMBDA c : c.type = t)

\* the two thresholds as the specification states them
SpecAdjusted(prevSize, curSize) ==
    LET delta == Abs(curSize - prevSize)
    IN  delta > Shares(1) /\ 100 * delta > Max(prevSize, Shares(1))

\* C1: reconciling a position set against itself yields no changes.
C1_SelfDiffEmpty == dpc = "self" => dChanges = <<>>

C1_Witness ==
    /\ dpc = "self" /\ Len(dOld) = 2
    /\ KeyOf(dOld[1]) = KeyOf(dOld[2]) /\ dOld[1] # dOld[2]
    /\ dChanges = <<>>

OpenedClosedPerKey ==
    dpc = "diffed" =>
        LET onlyNew == SelectSeq(KeysInOrder(dNew), LAMBDA k : k \notin KeySet(dOld))
            onlyOld == SelectSeq(KeysInOrder(dOld), LAMBDA k : k \notin KeySet(dNew))
            opened == OfType(dChanges, "new")
            closed == OfType(dChanges, "closed")
        IN  /\ Len(opened) = Len(onlyNew)
            /\ \A j \in 1..Len(opened) :
                  /\ Field(opened[j], "conditionId")
                        = Field(PosOf(dNew, onlyNew[j]), "conditionId")
                  /\ opened[j].outcome = OutcomeOf(PosOf(dNew, onlyNew[j]))
                  /\ opened[j].size = SizeOf(dNew, onlyNew[j])
            /\ Len(closed) = Len(onlyOld)
            /\ \A j \in 1..Len(closed) :
                  /\ Field(closed[j], "conditionId")
                        = Field(PosOf(dOld, onlyOld[j]), "conditionId")
                  /\ closed[j].outcome = OutcomeOf(PosOf(dOld, onlyOld[j]))
                  /\ closed[j].prevSize = SizeOf(dOld, onlyOld[j])
            /\ KeySet(dOld) \cap KeySet(dNew) = {} =>
                  /\ Len(opened) = Cardinality(KeySet(dNew))
                  /\ Len(closed) = Cardinality(KeySet(dOld))
                  /\ OfType(dChanges, "changed") = <<>>

OneOpenedOfFetchedSize ==
    /\ Len(dChanges) = 1
    /\ dChanges[1].type = "new"
    /\ dChanges[1].sizeDelta = NumOr0(dNew[1], "size")

\* C3 as stated: one opened Change per key only in current, one closed Change
\* per key only in previous, none for other keys; and a trader with no stored
\* entry and one fetched position yields exactly one opened Change with
\* sizeDelta equal to the fetched size.
C3_AsStated ==
    /\ OpenedClosedPerKey
    /\ (dpc = "first" /\ Len(dNew) = 1) => OneOpenedOfFetchedSize

\* C3 as amended: the same, where the one fetched position is in the
\* allow-list; a fetched position outside the allow-list yields no Change.
C3_OpenedClosedPerKey ==
    /\ OpenedClosedPerKey
    /\ (dpc = "first" /\ Len(dNew) = 1) =>
          IF Has(dNew[1], "conditionId") /\ dNew[1].conditionId \in dAllow
          THEN OneOpenedOfFetchedSize
          ELSE dChanges = <<>>

C3_Witness ==
    /\ dpc = "first" /\ dNew = <<YesPos(Shares(50))>> /\ dAllow = {"m1"}
    /\ OneOpenedOfFetchedSize
    /\ dChanges[1].sizeDelta = Shares(50)

\* C4: every Change has sizeDelta = size - previousSize, previousSize being
\* absent (0) for an opened Change; a closed Change has size 0,
\* previousSize = previous.size and sizeDelta = -previous.size.
C4_SizeDeltaInvariant ==
    dpc \in {"diffed", "first", "self"} =>
        /\ \A j \in 1..Len(dChanges) :
              LET c == dChanges[j]
              IN  /\ c.sizeDelta = c.size - NumOr0(c, "prevSize")
                  /\ c.type = "new" <=> ~Has(c, "prevSize")
                  /\ c.type = "closed" => c.size = 0
        /\ dpc = "diffed" =>
              LET onlyOld == SelectSeq(KeysInOrder(dOld),
                                       LAMBDA k : k \notin KeySet(dNew))
                  closed == OfType(dChanges, "closed")
              IN  \A j \in 1..Len(closed) :
                      j <= Len(onlyOld) =>
                          /\ closed[j].prevSize = SizeOf(dOld, onlyOld[j])
                          /\ closed[j].sizeDelta = -SizeOf(dOld, onlyOld[j])

C4_Witness ==
    /\ dpc = "diffed"
    /\ \E j \in 1..Len(dChanges) : dChanges[j].type = "new" /\ ~Has(dChanges[j], "prevSize")
    /\ \E j \in 1..Len(dChanges) : dChanges[j].type = "closed" /\ dChanges[j].prevSize > 0
    /\ \E j \in 1..Len(dChanges) : dChanges[j].type = "changed" /\ dChanges[j].sizeDelta < 0

\* the trader polled k-th in the current phase or cycle
TraderAt(k) == config.traders[k]

\* the k-th poll of the cycle is over (its state update included)
Settled(k) == k < Len(cycle.outcomes) \/ pc # "send"

\* C5: the baseline phase computes no Change and sends no notification; it
\* only sets the entries of the traders whose fetch returned a list, and is
\* followed by one persist of the store.
C5_BaselineSilent ==
    /\ phase = "baseline" =>
          /\ cycle.sent = <<>> /\ cycle.diffs = 0 /\ pending = EmptyObj
          /\ "webhook" \notin hist.calls
          /\ file.doc = EmptyObj /\ hist.baselineSaves = 0
          /\ pc # "crashed" => "write" \notin hist.calls
          /\ DOMAIN state =
                {TraderAt(k) : k \in {j \in 1..Len(cycle.outcomes) :
                                          cycle.outcomes[j].kind = "list"}}
          /\ \A k \in 1..Len(cycle.outcomes) :
                cycle.outcomes[k].kind = "list" =>
                    state[TraderAt(k)] =
                        Normalized(cycle.outcomes[k].positions, conditionIds)
    /\ hist.baselineDone => hist.baselineSaves = 1
    /\ (hist.baselineDone /\ cycle.outcomes = <<>> /\ cycle.saves = 0) =>
          file = [exists |-> TRUE, doc |-> state]

C5_Witness ==
    /\ hist.baselineDone /\ phase = "steady" /\ pc = "fetch"
    /\ cycle = NewCycle(state)
    /\ Has(state, "w2") /\ state["w2"] # <<>> /\ ~Has(state, "w1")
    /\ file.doc = state
    /\ "webhook" \notin hist.calls

\* C6: in a steady-state cycle a trader whose fetch throws or returns a
\* non-list keeps its entry, in memory and as persisted at the end of the
\* cycle, gets no notification, and the later traders are still polled.
C6_FailedFetchLeavesEntry ==
    phase = "steady" =>
        /\ \A k \in 1..Len(cycle.outcomes) :
              cycle.outcomes[k].kind \in {"throw", "nonlist"} =>
                  /\ Field(state, TraderAt(k)) = Field(cycle.startState, TraderAt(k))
                  /\ \A j \in 1..Len(cycle.sent) : cycle.sent[j].wallet # TraderAt(k)
                  /\ pc = "interval" =>
                        Field(file.doc, TraderAt(k))
                            = Field(cycle.startState, TraderAt(k))
        /\ pc = "fetch" => Len(cycle.outcomes) = idx - 1
        /\ pc \in {"send", "pace"} => Len(cycle.outcomes) = idx
        /\ pc = "interval" => Len(cycle.outcomes) = NumTraders

C6_Witness ==
    /\ phase = "steady" /\ pc = "interval" /\ NumTraders = 2
    /\ cycle.outcomes[1].kind = "throw"
    /\ cycle.outcomes[2].kind = "list"
    /\ Has(state, "w1") /\ state["w1"] # <<>>
    /\ state["w1"] = cycle.startState["w1"] /\ file.doc["w1"] = state["w1"]
    /\ Field(state, "w2") # Field(cycle.startState, "w2")

\* C7: after a steady-state poll whose fetch returned a list, the trader's
\* entry is the filtered, normalized snapshot, whether or not a Change was
\* found and whatever became of the notification.
C7_StateFollowsSnapshot ==
    phase = "steady" =>
        \A k \in 1..Len(cycle.outcomes) :
            (cycle.outcomes[k].kind = "list" /\ Settled(k)) =>
                /\ Has(state, TraderAt(k))
                /\ state[TraderAt(k)] =
                      Normalized(cycle.outcomes[k].positions, conditionIds)

C7_Witness ==
    /\ phase = "steady" /\ pc = "pace"
    /\ \E j \in 1..Len(cycle.sent) :
          /\ cycle.sent[j].result \in {"rejected", "error"}
          /\ cycle.sent[j].wallet = Wallet
    /\ cycle.outcomes[idx].kind = "list"
    /\ state[Wallet] = Normalized(cycle.outcomes[idx].positions, conditionIds)
    /\ Field(state, Wallet) # Field(cycle.startState, Wallet)

\* C8: the store is persisted once per steady-state cycle, after the last
\* trader, never between traders: the file always holds the in-memory store
\* as it was at the end of the last completed phase or cycle.
C8_PersistOncePerCycle ==
    /\ phase = "baseline" => file.doc = cycle.startState /\ cycle.saves = 0
    /\ phase = "steady" =>
          /\ file.exists
          /\ pc \in {"fetch", "send", "pace", "crashed"} =>
                cycle.saves = 0 /\ file.doc = cycle.startState
          /\ pc = "interval" =>
                /\ cycle.saves = 1
                /\ file.doc = state
                /\ Len(cycle.outcomes) = NumTraders

C8_Witness ==
    /\ phase = "steady" /\ pc = "pace" /\ NumTraders = 2 /\ idx = 1
    /\ state # cycle.startState
    /\ file.doc = cycle.startState /\ file.doc # state

\* C9: with no traders configured the process exits with a non-zero status
\* before any collaborator call and before either phase.
C9_NoTradersExits ==
    /\ (~Has(config, "traders") \/ config.traders = <<>>) =>
          /\ pc \in {"start", "exited"}
          /\ hist.calls = {}
          /\ phase = "startup"
          /\ state = EmptyObj
          /\ file \in InitialFiles
    /\ pc = "exited" =>
          /\ exitCode = 1
          /\ ~Has(config, "traders") \/ config.traders = <<>>
    /\ pc = "start" => exitCode = -1

C9_Witness ==
    /\ pc = "exited" /\ exitCode = 1
    /\ Has(config, "traders") /\ config.traders = <<>>
    /\ hist.calls = {}

\* C10: the baseline phase runs at most once, exactly when the loaded store
\* has no entries, is over before the first steady-state cycle and is never
\* entered again.
C10_BaselineOnceOneWay ==
    /\ hist.baselineRuns <= 1
    /\ hist.loaded = "empty" <=> hist.baselineRuns = 1
    /\ hist.loaded = "no" => phase = "startup"
    /\ hist.steadyStarted =>
          /\ phase = "steady"
          /\ hist.baselineRuns = 1 => hist.baselineDone
    /\ phase = "steady" => hist.steadyStarted
    /\ phase = "baseline" => ~hist.steadyStarted /\ ~hist.baselineDone

C10_Witness ==
    /\ phase = "steady" /\ pc = "interval"
    /\ hist.baselineRuns = 1 /\ hist.baselineDone /\ hist.loaded = "empty"

\* the calls of sendDiscordMessage made for the trader polled k-th
SentTo(k) == SelectSeq(cycle.sent, LAMBDA s : s.wallet = TraderAt(k))

\* the reconcile result of the k-th poll of the cycle: the fetched list
\* against the entry the trader had when the cycle began
ReconcileResult(k) ==
    IF cycle.outcomes[k].kind = "list"
    THEN PollChanges(cycle.startState, TraderAt(k), cycle.outcomes[k].positions,
                     conditionIds)
    ELSE <<>>

\* C11: in a steady-state cycle each trader gets exactly one notification,
\* carrying all its changes, when its reconcile result is non-empty and none
\* when it is empty; while the notification is being dispatched the trader's
\* entry is still the one reconciled against.
C11_OneNotificationBeforeOverwrite ==
    phase = "steady" =>
        /\ \A k \in 1..Len(cycle.outcomes) :
              IF ReconcileResult(k) # <<>> /\ Settled(k)
              THEN /\ Len(SentTo(k)) = 1
                   /\ SentTo(k)[1].changes = ReconcileResult(k)
              ELSE SentTo(k) = <<>>
        /\ \A k \in (Len(cycle.outcomes) + 1)..NumTraders : SentTo(k) = <<>>
        /\ pc = "send" =>
              /\ Len(cycle.outcomes) = idx
              /\ ReconcileResult(idx) # <<>>
              /\ pending.changes = ReconcileResult(idx)
              /\ Field(state, Wallet) = Field(cycle.startState, Wallet)
        /\ \A k \in 1..Len(cycle.outcomes) :
              Field(state, TraderAt(k)) # Field(cycle.startState, TraderAt(k))
                  => (ReconcileResult(k) = <<>> \/ Len(SentTo(k)) = 1)

C11_Witness ==
    /\ phase = "steady" /\ pc = "pace" /\ NumTraders = 2 /\ idx = 2
    /\ cycle.outcomes[1].kind = "list" /\ ReconcileResult(1) = <<>>
    /\ Len(cycle.sent) = 1 /\ cycle.sent[1].wallet = "w2"
    /\ Len(cycle.sent[1].changes) = 1
    /\ Field(state, "w2") # Field(cycle.startState, "w2")

\* the fetched positions the allow-list keeps, as fetched
Kept == SelectSeq(dNew, LAMBDA p : InAllowList(p, dAllow))

\* C12: normalization and diffing preserve cashPnl as absent-or-value: for
\* a first-seen position the normalized Position and the Change carry a
\* cashPnl exactly when the fetched position does, with the same value (0
\* stays 0), and the formatter shows a PNL line exactly for those.
C12_CashPnlAbsentOrValue ==
    (dpc = "first" /\ Len(dChanges) = Len(Kept)) =>
        \A j \in 1..Len(Kept) :
            LET raw == Kept[j]
                norm == Normalized(dNew, dAllow)[j]
                c == dChanges[j]
            IN  /\ Field(norm, "cashPnl") = Field(raw, "cashPnl")
                /\ Field(c, "cashPnl") = Field(raw, "cashPnl")
                /\ dEmbed # EmptyObj =>
                      ((\E l \in 1..Len(dEmbed.fields[j].lines) :
                            dEmbed.fields[j].lines[l] = "PNL")
                       <=> Has(raw, "cashPnl"))

\* the keys the k-th poll of the cycle reports as opened: those of the
\* filtered, normalized list that the trader's entry does not have
OpenedKeys(k) ==
    IF cycle.outcomes[k].kind = "list"
    THEN KeySet(Normalized(cycle.outcomes[k].positions, conditionIds))
            \ KeySet(PrevPositions(cycle.startState, TraderAt(k)))
    ELSE {}

\* C13: on a first run no steady-state cycle reports as opened a key the
\* trader has held since the baseline phase, whatever the outcomes of the
\* baseline fetches.
C13_HeldSinceBaselineNeverOpened ==
    (phase = "steady" /\ hist.baselineRuns = 1) =>
        \A k \in 1..Len(cycle.outcomes) :
            Has(held, TraderAt(k)) => OpenedKeys(k) \cap held[TraderAt(k)] = {}

\* C14: no failed collaborator call (the startup event listing, a baseline
\* or steady-state position fetch, a notification send) stops the process:
\* main() ends only by the exit for a missing trader list or by a state
\* write that throws.
C14_CollaboratorFailuresNonFatal ==
    /\ pc = "exited" => exitCode = 1 /\ hist.calls = {}
    /\ pc = "crashed" => "write" \in hist.calls

\* C15: fetchAllEvents always terminates and never returns more than 5000
\* event records, whatever the pages are: every turn of its loop that does
\* not end it adds records, and the list returned has at most 5000.
C15_EventsCapped ==
    /\ epc = "fetching" => allEvents <= EventCap /\ offset <= PageSize * allEvents
    /\ epc = "returned" => allEvents <= EventCap

\* a change that is opened or has a positive sizeDelta
BuySide(c) == c.type = "new" \/ c.sizeDelta > 0

\* a change that is closed or has a negative sizeDelta
SellSide(c) == c.type = "closed" \/ c.sizeDelta < 0

\* C16: the embed of a non-empty list of Changes has the net-buy colour iff
\* every change is opened or has a positive sizeDelta, the net-sell colour
\* iff every change is closed or has a negative sizeDelta, the mixed colour
\* otherwise; a field's direction is BUY for opened, SELL for closed and for
\* adjusted with a negative delta, BUY MORE for adjusted with a positive one.
C16_ColourAndDirection ==
    dEmbed # EmptyObj =>
        /\ dChanges # <<>>
        /\ dEmbed.color = NetBuyColour
              <=> \A j \in 1..Len(dChanges) : BuySide(dChanges[j])
        /\ dEmbed.color = NetSellColour
              <=> \A j \in 1..Len(dChanges) : SellSide(dChanges[j])
        /\ dEmbed.color = MixedColour
              <=> /\ \E j \in 1..Len(dChanges) : ~BuySide(dChanges[j])
                  /\ \E j \in 1..Len(dChanges) : ~SellSide(dChanges[j])
        /\ Len(dEmbed.fields) = Len(dChanges)
        /\ \A j \in 1..Len(dChanges) :
              dEmbed.fields[j].direction =
                  CASE dChanges[j].type = "new" -> "BUY"
                    [] dChanges[j].type = "closed" -> "SELL"
                    [] dChanges[j].type = "changed" /\ dChanges[j].sizeDelta < 0 -> "SELL"
                    [] dChanges[j].type = "changed" /\ dChanges[j].sizeDelta > 0 -> "BUY MORE"

C16_Witness ==
    /\ dpc = "diffed" /\ dEmbed # EmptyObj
    /\ dEmbed.color = NetBuyColour /\ Len(dEmbed.fields) = 2
    /\ dEmbed.fields[1].direction = "BUY"
    /\ dEmbed.fields[2].direction = "BUY MORE"

\* a sequence of types in which the opened come first, then the closed,
\* then the adjusted
GroupRank(t) == CASE t = "new" -> 1 [] t = "closed" -> 2 [] t = "changed" -> 3

\* the key a Change was made for: the j-th Change of its type stands for
\* the j-th key of the list keys
ChangeKeysMatch(changes, keys, positions) ==
    /\ Len(changes) = Len(keys)
    /\ \A j \in 1..Len(changes) :
          /\ Field(changes[j], "conditionId")
                = Field(PosOf(positions, keys[j]), "conditionId")
          /\ changes[j].outcome = OutcomeOf(PosOf(positions, keys[j]))

\* C17: in the list of diffPositions every opened Change precedes every
\* closed one and every closed one precedes every adjusted one; within a
\* group the Changes follow the first-occurrence order of their keys in the
\* snapshot iterated: current for opened and adjusted, previous for closed.
C17_GroupedInIterationOrder ==
    dpc = "diffed" =>
        /\ \A i, j \in 1..Len(dChanges) :
              i < j => GroupRank(dChanges[i].type) <= GroupRank(dChanges[j].type)
        /\ ChangeKeysMatch(OfType(dChanges, "new"),
                           SelectSeq(KeysInOrder(dNew),
                                     LAMBDA k : k \notin KeySet(dOld)),
                           dNew)
        /\ ChangeKeysMatch(OfType(dChanges, "closed"),
                           SelectSeq(KeysInOrder(dOld),
                                     LAMBDA k : k \notin KeySet(dNew)),
                           dOld)
        /\ ChangeKeysMatch(OfType(dChanges, "changed"),
                           SelectSeq(KeysInOrder(dNew),
                                     LAMBDA k : /\ k \in KeySet(dOld)
                                                /\ ExceedsThreshold(SizeOf(dOld, k),
                                                                    SizeOf(dNew, k))),
                           dNew)

C17_Witness ==
    /\ dpc = "diffed" /\ Len(dChanges) = 3
    /\ dChanges[1].type = "new" /\ dChanges[2].type = "closed"
    /\ dChanges[3].type = "changed"
    /\ KeyOf(dNew[1]) \in KeySet(dOld) /\ KeyOf(dNew[2]) \notin KeySet(dOld)

\* C18: once the steady-state phase has started the driver never leaves it
\* on its own: whatever the fetches, the dispatches and the end-of-cycle
\* state write of a cycle did, the driver is in the loop, at a step that
\* leads on to the next cycle.
C18_SteadyNeverLeaves ==
    phase = "steady" =>
        /\ pc \in {"fetch", "send", "pace", "interval"}
        /\ exitCode = -1

\* the driver is at a fetch of a trader's positions
AtFetch(p) == p \in {"fetch", "baseFetch"}

\* C19: between two consecutive trader fetches, in the baseline phase and in
\* a steady-state cycle, the driver sleeps the pacing interval whatever the
\* earlier fetch gave: no step leads from one fetch straight to the next.
C19_PacedBetweenFetches == [][AtFetch(pc) => ~AtFetch(pc')]_vars

\* the identity of a position as the specification defines it: the market
\* and the outcome key, an index (0 when there is neither index nor label)
\* or a label
PairOf(p) ==
    <<IF Has(p, "conditionId") THEN <<"id", p.conditionId>> ELSE <<"none", "">>,
      IF Has(p, "outcomeIndex") THEN <<"index", ToString(p.outcomeIndex)>>
      ELSE IF Has(p, "outcome") THEN <<"label", p.outcome>>
      ELSE <<"index", "0">>>>

\* diffPositions took the two positions for one: neither opened nor closed
Joined == OfType(dChanges, "new") = <<>> /\ OfType(dChanges, "closed") = <<>>

\* C20: the join key identifies a position exactly by the pair (marketId,
\* outcomeIndex if present else outcome label if present else 0): a previous
\* and a current position are joined iff their pairs are equal.
C20_JoinedIffSamePair ==
    (dpc = "diffed" /\ Len(dOld) = 1 /\ Len(dNew) = 1) =>
        (Joined <=> PairOf(dOld[1]) = PairOf(dNew[1]))

\* every position of a list belongs to a market of the allow-list
AllAllowed(positions, cids) ==
    \A j \in 1..Len(positions) :
        Has(positions[j], "conditionId") /\ positions[j].conditionId \in cids

\* every opened or adjusted Change of a list is for a market of the allow-list
ChangesAllowed(changes, cids) ==
    \A j \in 1..Len(changes) :
        changes[j].type \in {"new", "changed"} =>
            Has(changes[j], "conditionId") /\ changes[j].conditionId \in cids

\* a step of the run after the allow-list was built writes only allowed
\* positions into an entry and reports only allowed positions as opened or
\* adjusted
AllowListStep ==
    pc # "events" =>
        /\ \A w \in DOMAIN state' :
              Field(state', w) # Field(state, w) => AllAllowed(state'[w], conditionIds)
        /\ pending' # EmptyObj => ChangesAllowed(pending'.changes, conditionIds)
        /\ \A j \in 1..Len(cycle'.sent) :
              ChangesAllowed(cycle'.sent[j].changes, conditionIds)

\* C21: within one run a fetched position whose market is not in the
\* allow-list built at startup is never written into an entry of the state
\* object, by the baseline loop or by a poll, and never appears in an opened
\* or adjusted Change; with an empty allow-list every entry written is empty.
C21_OnlyAllowedStored == [][AllowListStep]_vars

C21_Witness ==
    /\ phase = "steady" /\ pc = "pace" /\ conditionIds = {}
    /\ cycle.outcomes[idx].kind = "list" /\ cycle.outcomes[idx].positions # <<>>
    /\ Has(cycle.startState, Wallet) /\ cycle.startState[Wallet] # <<>>
    /\ state[Wallet] = <<>>
    /\ Len(cycle.sent) = 1 /\ cycle.sent[1].changes[1].type = "closed"

RoundKept == SelectSeq(rList, LAMBDA p : InAllowList(p, rAllow))

====
